---- MODULE Spec2Model ----
(***************************************************************************)
(* A model of the feature-branching action (src/main.go): one run of main  *)
(* against a local git working copy, a remote and the pull-request API.    *)
(*                                                                         *)
(* The program drives git through runGitCommand; the model keeps the part  *)
(* of git's state those commands read and write: the local branch refs,    *)
(* the checked-out branch, the commits, the index (the changes staged      *)
(* relative to HEAD, and whether it holds unmerged entries), the history   *)
(* file in the working tree, and the remote's refs.  A change set is named *)
(* by the pull request it comes from; "history" names the history file.    *)
(* Every `if err != nil` branch of the source is a branch of the model.    *)
(* What git does on a dirty index (GitMergeSquash, GitCommit) is git's      *)
(* documented behaviour, as git 2.39 shows it.                             *)
(* Branch names: the scratch branches pr-<n> are taken to differ from the  *)
(* trunk and target names.                                                 *)
(***************************************************************************)
EXTENDS Integers, Sequences, FiniteSets, TLC

\* Longest list of pull requests the API returns in the model.
MaxPRs == 2
\* Creation times of pull requests range over 1..MaxCreated.
MaxCreated == 2

\* getLatestCommitSHA's placeholder "unknown" (commit ids are 1, 2, ...).
UnknownSHA == 0

\* const refHistoryFile: the change-set name of the history file.
refHistoryFile == "history"

\* A ref that does not exist (git show-ref --verify fails on it).
NoRef == 0

\* The commit the trunk branch points to when the run starts, and the commit a
\* target branch left by an earlier run points to.
RootCommit == 1
StaleCommit == 2

\* Branch names that occur: the trunk names, the configured target names and
\* the defaults pre-<trunk>.
BranchNames == {"main", "dev", "pre-main", "pre-dev"}

\* The flag values a run may be started with (flag.StringVar defaults apply
\* when a flag is absent: "" everywhere but trunk_branch, which is "main").
\* The labels flag is a string, kept as its sequence of comma-separated atoms.
ArgSets ==
  [ github_token  : {"", "tok"},
    owner         : {"", "acme"},
    repo          : {"", "app"},
    trunk_branch  : {"main", "dev"},
    target_branch : {"", "main"},
    labels        : {<<>>, <<"Next-Feature", ",", "docs">>},
    github_output : {"", "/out"} ]

-----------------------------------------------------------------------------
(* Pure helpers *)

\* strings.ToLower on the label alphabet of the model.
ToLower(s) ==
  CASE s = "Next-Feature" -> "next-feature"
    [] s = "Bug" -> "bug"
    [] OTHER -> s

\* strings.Split(input, ","): the segments between the commas; a segment of
\* one atom is that atom, an empty segment is "".
RECURSIVE Split(_, _)
Split(input, cur) ==
  IF input = <<>> THEN <<cur>>
  ELSE IF Head(input) = "," THEN <<cur>> \o Split(Tail(input), "")
  ELSE Split(Tail(input), cur \o Head(input))

parseLabels(input) ==
  IF input = <<>> THEN <<>> ELSE Split(input, "")

\* parseConfig without the check of github_output.
parseConfigErrorNoOutput(a) ==
  IF a.github_token = "" THEN "github_token"
  ELSE IF a.owner = "" THEN "owner"
  ELSE IF a.repo = "" THEN "repo"
  ELSE ""

\* The error parseConfig returns ("" for nil): the first missing required flag.
parseConfigError(a) ==
  IF a.github_token = "" THEN "github_token"
  ELSE IF a.owner = "" THEN "owner"
  ELSE IF a.repo = "" THEN "repo"
  ELSE IF a.github_output = "" THEN "github_output"
  ELSE ""

\* The default target branch spelled out for the default trunk.
DefaultTargetBranchFixed(a) ==
  IF a.target_branch = "" THEN "pre-main" ELSE a.target_branch

\* The target branch after defaulting.
DefaultTargetBranch(a) ==
  IF a.target_branch = "" THEN "pre-" \o a.trunk_branch ELSE a.target_branch

\* The Config parseConfig returns when it returns no error.
parseConfig(a) ==
  [ GithubToken    |-> a.github_token,
    Owner          |-> a.owner,
    Repo           |-> a.repo,
    TrunkBranch    |-> a.trunk_branch,
    TargetBranch   |-> DefaultTargetBranch(a),
    RequiredLabels |-> parseLabels(a.labels),
    GitHubOutput   |-> a.github_output ]

Range(s) == { s[k] : k \in 1..Len(s) }

\* hasAnyLabel comparing the labels as written.
hasAnyLabelExact(prLabels, required) ==
  IF Len(required) = 0 THEN TRUE
  ELSE \E r \in Range(required) : r \in Range(prLabels)

hasAnyLabel(prLabels, required) ==
  IF Len(required) = 0 THEN TRUE
  ELSE \E r \in Range(required) :
         ToLower(r) \in { ToLower(l) : l \in Range(prLabels) }

\* filterPRs with the qualifying candidates collected in reverse.
RECURSIVE filterPRsReversed(_, _)
filterPRsReversed(list, requiredLabels) ==
  IF list = <<>> THEN <<>>
  ELSE IF hasAnyLabel(Head(list).Labels, requiredLabels)
       THEN filterPRsReversed(Tail(list), requiredLabels) \o <<Head(list)>>
       ELSE filterPRsReversed(Tail(list), requiredLabels)

RECURSIVE filterPRs(_, _)
filterPRs(list, requiredLabels) ==
  IF list = <<>> THEN <<>>
  ELSE IF hasAnyLabel(Head(list).Labels, requiredLabels)
       THEN <<Head(list)>> \o filterPRs(Tail(list), requiredLabels)
       ELSE filterPRs(Tail(list), requiredLabels)

\* The raw records of an API response: each pull request with its number, its
\* title (opaque: one title per number), its creation time and its label
\* objects ("state" and "base" are decoded and never read).  Numbers are
\* opaque identities, unique in a response; the model numbers a response's
\* pull requests by position.
RawPR(n) ==
  [ number : {n}, title : {"title " \o ToString(n)}, created_at : 1..MaxCreated,
    labels : { <<[name |-> "next-feature"]>>, <<[name |-> "Bug"]>> } ]

RECURSIVE ResponsesOfLen(_)
ResponsesOfLen(n) ==
  IF n = 0 THEN { <<>> }
  ELSE { Append(r, p) : r \in ResponsesOfLen(n - 1), p \in RawPR(n) }

\* The creation times a response uses.
Times(r) == { r[k].created_at : k \in 1..Len(r) }

\* The responses of the model, in every order of creation times: only the
\* order of the times matters, so the times used are 1..m for some m.
Responses ==
  { r \in UNION { ResponsesOfLen(n) : n \in 0..MaxPRs } :
      Times(r) = 1..Cardinality(Times(r)) }

\* The responses the API gives a run with these required labels.  With no
\* label required hasAnyLabel returns before it reads a label, so one
\* labelling stands for all.
ResponsesFor(required) ==
  IF required = <<>>
  THEN { r \in Responses :
           \A k \in 1..Len(r) : r[k].labels = <<[name |-> "next-feature"]>> }
  ELSE Responses

\* The conversion loop of fetchQualifiedPRs: raw record to GitHubPR.
ConvertPR(raw) ==
  [ Number    |-> raw.number,
    Title     |-> raw.title,
    CreatedAt |-> raw.created_at,
    Labels    |-> [ j \in 1..Len(raw.labels) |-> raw.labels[j].name ] ]

ConvertPRs(rawPRs) == [ k \in 1..Len(rawPRs) |-> ConvertPR(rawPRs[k]) ]

-----------------------------------------------------------------------------
(* State *)

VARIABLES
  pc,          \* the statement of main (or of processPRs' loop body) to run next
  args,        \* the command-line flags
  cfg,         \* Config, once parsed
  deferred,    \* whether main has registered its deferred setOutput call
  rawPRs,      \* the API response decoded by fetchQualifiedPRs
  prs,         \* the qualifying candidates, in processing order
  i,           \* processPRs: index of the candidate in hand
  mergedPRs,   \* processPRs: the records appended so far
  refs,        \* local branch -> commit id (NoRef when absent)
  head,        \* the checked-out local branch
  commits,     \* commit id -> commit
  index,       \* change sets staged in the index relative to HEAD
  unmerged,    \* whether the index holds unmerged (conflicted) entries
  histFile,    \* the history file in the working tree
  remote,      \* origin's branch -> commit id
  pushed,      \* the branch names pushed, in order
  scratch,     \* the scratch branches fetch created
  attempted,   \* the numbers of the candidates processSinglePR was called on
  intrinsic,   \* per attempted candidate: what its pull request is like
  outcome,     \* per attempted candidate: "ok" or the step that failed
  pushResult,  \* "none", "ok" or "failed"
  outputFile,  \* the lines appended to the output sink
  fatalWhy,    \* the log.Fatal message of the run, "" when none
  gitLog,      \* the external commands and requests issued, in order
  now          \* the clock read by time.Now

progVars == <<pc, cfg, deferred, rawPRs, prs, i, mergedPRs, now>>
gitVars  == <<refs, head, commits, index, unmerged, histFile, remote, pushed, scratch>>
obsVars  == <<attempted, intrinsic, outcome, pushResult, outputFile, fatalWhy, gitLog>>
vars     == <<args, progVars, gitVars, obsVars>>

\* What a pull request is like, whatever the working copy it meets:
\*   "ok"        its ref fetches, its changes squash cleanly onto the target
\*               and commit;
\*   "nofetch"   its ref cannot be fetched;
\*   "conflict"  its changes conflict with the target branch;
\*   "nochange"  it changes nothing the target does not already hold, so the
\*               squash stages nothing and the commit has nothing to commit;
\*   "badcommit" git commit rejects the commit made for it (an empty message,
\*               a hook, a lock).
Behaviours == {"ok", "nofetch", "conflict", "nochange", "badcommit"}

\* Whether the pull request would be integrated on a clean working copy.
WouldSucceed(beh) == beh = "ok"

\* `var cfg Config`
ZeroConfig ==
  [ GithubToken |-> "", Owner |-> "", Repo |-> "", TrunkBranch |-> "",
    TargetBranch |-> "", RequiredLabels |-> <<>>, GitHubOutput |-> "" ]

\* The repository and process a run starts in: the trunk branch checked out
\* and clean; a target branch left by an earlier run or none; trunk tracking
\* a zero-record history file or none.
\* The checkout, origin and the step's surroundings when the program starts.
RepoInit(a, stale, tracked, onTarget) ==
    LET trunk     == a.trunk_branch
        target    == DefaultTargetBranch(a)
        hasStale  == stale /\ target # trunk
        trunkFile == [exists |-> tracked, merges |-> <<>>]
        staleFile == [exists |-> TRUE,
                      merges |-> <<[PR |-> 0, Commit |-> StaleCommit, Timestamp |-> 0]>>]
        rootC     == [parent |-> NoRef, changes |-> {}, msg |-> "trunk",
                      on |-> trunk, hist |-> trunkFile]
        staleC    == [parent |-> RootCommit, changes |-> {"stale", refHistoryFile},
                      msg |-> "chore: update ref-history",
                      on |-> target, hist |-> staleFile]
    IN
    /\ args = a
    /\ i = 1
    /\ mergedPRs = <<>>
    /\ now = 1
    /\ commits = IF hasStale THEN <<rootC, staleC>> ELSE <<rootC>>
    /\ refs = [ b \in BranchNames |->
                  IF b = trunk THEN RootCommit
                  ELSE IF hasStale /\ b = target THEN StaleCommit
                  ELSE NoRef ]
    /\ remote = [ b \in BranchNames |->
                  IF b = trunk THEN RootCommit
                  ELSE IF hasStale /\ b = target THEN StaleCommit
                  ELSE NoRef ]
    /\ head = IF hasStale /\ onTarget THEN target ELSE trunk
    /\ index = {}
    /\ unmerged = FALSE
    /\ histFile = IF hasStale /\ onTarget THEN staleFile ELSE trunkFile
    /\ pushed = <<>>
    /\ scratch = {}
    /\ attempted = <<>>
    /\ intrinsic = <<>>
    /\ outcome = <<>>
    /\ pushResult = "none"
    /\ outputFile = <<>>
    /\ fatalWhy = ""

Init ==
  \E a \in ArgSets, stale \in BOOLEAN, tracked \in BOOLEAN :
    /\ RepoInit(a, stale, tracked, FALSE)
    /\ pc = "mustParseConfig"
    /\ cfg = ZeroConfig
    /\ deferred = FALSE
    /\ rawPRs = <<>>
    /\ prs = <<>>
    /\ gitLog = <<>>

\* log.Printf in place of log.Fatal in updateMergeHistory: main goes on.
FatalLogged(why) ==
  /\ pc' = IF pc = "updateMergeHistory" THEN "pushChanges" ELSE "exit1"
  /\ fatalWhy' = why

\* log.Fatal: the message is logged and os.Exit(1) ends the process at once;
\* deferred calls do not run.
Fatal(why) ==
  /\ pc' = "exit1"
  /\ fatalWhy' = why

-----------------------------------------------------------------------------
(* main, up to the candidate loop *)

mustParseConfig ==
  /\ pc = "mustParseConfig"
  /\ IF parseConfigError(args) # ""
     THEN /\ Fatal("invalid configuration")
          /\ UNCHANGED <<cfg, deferred>>
     ELSE /\ cfg' = parseConfig(args)
          /\ deferred' = TRUE
          /\ pc' = "mustSetupGitConfig"
          /\ UNCHANGED fatalWhy
  /\ UNCHANGED <<args, rawPRs, prs, i, mergedPRs, now, gitVars,
                 attempted, intrinsic, outcome, pushResult, outputFile, gitLog>>

mustSetupGitConfig ==
  /\ pc = "mustSetupGitConfig"
  /\ gitLog' = Append(gitLog, "git config")
  /\ \E ok \in BOOLEAN :
       IF ok THEN pc' = "mustFetchQualifiedPRs" /\ UNCHANGED fatalWhy
       ELSE Fatal("error configuring Git")
  /\ UNCHANGED <<args, cfg, deferred, rawPRs, prs, i, mergedPRs, now, gitVars,
                 attempted, intrinsic, outcome, pushResult, outputFile>>

\* The errors fetchQualifiedPRs returns.
QueryErrors ==
  { "request creation failed", "request API failed", "response API status",
    "response API decoding failed" }

\* processPRs' loop: the statement after candidate k - 1 is done with.
LoopNext(k, n) == IF k <= n THEN "fetch" ELSE "updateMergeHistory"

mustFetchQualifiedPRs ==
  /\ pc = "mustFetchQualifiedPRs"
  /\ gitLog' = Append(gitLog, "GET pulls")
  /\ \/ /\ \E e \in QueryErrors : Fatal("error fetching PRs: " \o e)
        /\ UNCHANGED <<rawPRs, prs>>
     \/ /\ \E response \in ResponsesFor(cfg.RequiredLabels) :
             /\ rawPRs' = response
             /\ prs' = filterPRs(ConvertPRs(response), cfg.RequiredLabels)
        /\ pc' = "prepareTargetBranch"
        /\ UNCHANGED fatalWhy
  /\ UNCHANGED <<args, cfg, deferred, i, mergedPRs, now, gitVars,
                 attempted, intrinsic, outcome, pushResult, outputFile>>

branchExists(rs, branch) == rs[branch] # NoRef

\* A git branch -D that deletes any branch.
CanDeleteAnyBranch(h, branch) == TRUE

\* git branch -D refuses to delete the checked-out branch.
CanDeleteBranch(h, branch) == h # branch

\* git branch -D <branch>
DeleteBranch(rs, branch) == [rs EXCEPT ![branch] = NoRef]

\* git checkout <branch> in place of checkout -B: a branch origin has is taken
\* from origin, not from HEAD.
CheckoutTrackingBranch(rs, branch, tip) ==
  [rs EXCEPT ![branch] = IF remote[branch] # NoRef THEN remote[branch] ELSE tip]

\* git checkout -B <branch> with no checkout of trunk before it: the branch is
\* reset at the commit that was checked out when prepareTargetBranch was called.
CheckoutNewBranchInPlace(rs, branch, tip) == [rs EXCEPT ![branch] = refs[head]]

\* git checkout -B <branch>: the branch is created, or reset, at HEAD's commit.
CheckoutNewBranch(rs, branch, tip) == [rs EXCEPT ![branch] = tip]

prepareTargetBranchAt(at) ==
  /\ pc = at
  /\ LET trunk  == cfg.TrunkBranch
         target == cfg.TargetBranch
         exists == branchExists(refs, target)
         afterDelete == IF exists THEN DeleteBranch(refs, target) ELSE refs
         log1 == Append(gitLog, "git checkout trunk")
         log2 == IF exists THEN Append(log1, "git branch -D") ELSE log1
         log3 == Append(log2, "git checkout -B")
     IN
     \/ \* git checkout <trunk> fails
        /\ Fatal("checkout to trunk branch failed")
        /\ gitLog' = log1
        /\ UNCHANGED <<refs, head, histFile>>
     \/ \* git branch -D <target> fails
        /\ exists
        /\ Fatal("delete target branch failed")
        /\ gitLog' = log2
        /\ head' = trunk
        /\ histFile' = commits[refs[trunk]].hist
        /\ UNCHANGED refs
     \/ \* git checkout -B <target> fails
        /\ exists => CanDeleteBranch(trunk, target)
        /\ Fatal("create target branch failed")
        /\ gitLog' = log3
        /\ head' = trunk
        /\ histFile' = commits[refs[trunk]].hist
        /\ refs' = afterDelete
     \/ \* all three succeed
        /\ exists => CanDeleteBranch(trunk, target)
        /\ refs' = CheckoutNewBranch(afterDelete, target, refs[trunk])
        /\ head' = target
        /\ histFile' = commits[refs[trunk]].hist
        /\ gitLog' = log3
        /\ pc' = LoopNext(1, Len(prs))
        /\ UNCHANGED fatalWhy
  /\ UNCHANGED <<args, cfg, deferred, rawPRs, prs, i, mergedPRs, now,
                 commits, index, unmerged, remote, pushed, scratch,
                 attempted, intrinsic, outcome, pushResult, outputFile>>

prepareTargetBranch == prepareTargetBranchAt("prepareTargetBranch")

-----------------------------------------------------------------------------
(* git, as processSinglePR and updateRefHistory drive it *)

\* fmt.Sprintf("pr-%d", pr.Number): the scratch branch, which also names the
\* candidate's change set.
branch(pr) == "pr-" \o ToString(pr.Number)

\* git merge --squash <branch> on an index holding the staged change sets idx
\* (unm: with unmerged entries), for a pull request that is like beh; atRoot:
\* HEAD is still the trunk tip, so the squash may be a fast-forward.  The
\* set of results git can give: whether it exits 0, and the index it leaves.
\*  - unmerged entries in the index: git refuses, nothing changes;
\*  - staged changes in the index: git refuses ("local changes would be
\*    overwritten"), or, when the squash is a fast-forward that touches none
\*    of the staged paths, goes ahead and keeps what was staged;
\*  - a clean index: a conflicting squash exits non-zero and leaves the
\*    conflict (unmerged entries and the changes it could stage) behind;
\*    any other stages the candidate's changes, if it has any.
GitMergeSquash(b, beh, idx, unm, atRoot) ==
  LET staged == IF beh = "nochange" THEN idx ELSE idx \cup {b} IN
  IF unm
  THEN { [ok |-> FALSE, index |-> idx, unmerged |-> TRUE] }
  ELSE IF idx # {}
  THEN { [ok |-> FALSE, index |-> idx, unmerged |-> FALSE] }
       \cup ( IF atRoot /\ beh # "conflict"
              THEN { [ok |-> TRUE, index |-> staged, unmerged |-> FALSE] }
              ELSE {} )
  ELSE IF beh = "conflict"
  THEN { [ok |-> FALSE, index |-> {b}, unmerged |-> TRUE] }
  ELSE { [ok |-> TRUE, index |-> staged, unmerged |-> FALSE] }

\* git commit -m <message>: whether it exits 0.  It refuses an index with
\* unmerged entries and an index equal to HEAD (nothing to commit); rejected:
\* git rejects this commit for a reason of its own.
GitCommit(idx, unm, rejected) == ~unm /\ idx # {} /\ ~rejected

\* The commit git commit creates on the checked-out branch: everything staged.
NewCommit(parent, idx, message, onBranch, file) ==
  [ parent |-> parent, changes |-> idx, msg |-> message, on |-> onBranch,
    hist |-> file ]

-----------------------------------------------------------------------------
(* processPRs *)

\* `break` in place of `continue`.
AfterFailureBreak(k, n) == "updateMergeHistory"

\* `log.Printf(...); continue`: the statement after candidate k failed.
AfterFailure(k, n) == LoopNext(k + 1, n)

\* A failure branch that tries the first failed candidate once more.
SkipRetryOnce(step) ==
  /\ outcome' = Append(outcome, step)
  /\ i' = IF Len(outcome) < i THEN i ELSE i + 1
  /\ pc' = IF Len(outcome) < i THEN "fetch" ELSE AfterFailure(i, Len(prs))

\* processPRs' failure branch: candidate i failed at `step`.
Skip(step) ==
  /\ outcome' = Append(outcome, step)
  /\ i' = i + 1
  /\ pc' = AfterFailure(i, Len(prs))

\* processSinglePR: git fetch origin pull/<n>/head:pr-<n>
fetch ==
  /\ pc = "fetch"
  /\ gitLog' = Append(gitLog, "git fetch " \o branch(prs[i]))
  /\ attempted' = Append(attempted, prs[i].Number)
  /\ \E beh \in Behaviours :
       /\ intrinsic' = Append(intrinsic, beh)
       /\ IF beh = "nofetch"
          THEN Skip("fetch") /\ UNCHANGED scratch
          ELSE /\ scratch' = scratch \cup {branch(prs[i])}
               /\ pc' = "squash"
               /\ UNCHANGED <<outcome, i>>
  /\ UNCHANGED <<args, cfg, deferred, rawPRs, prs, mergedPRs, now,
                 refs, head, commits, index, unmerged, histFile, remote, pushed,
                 pushResult, outputFile, fatalWhy>>

\* processSinglePR: git merge --squash pr-<n>
squash ==
  /\ pc = "squash"
  /\ gitLog' = Append(gitLog, "git merge --squash " \o branch(prs[i]))
  /\ \E r \in GitMergeSquash(branch(prs[i]), intrinsic[i], index, unmerged,
                             refs[head] = RootCommit) :
       /\ index' = r.index
       /\ unmerged' = r.unmerged
       /\ IF r.ok
          THEN pc' = "commit" /\ UNCHANGED <<outcome, i>>
          ELSE Skip("squash")
  /\ UNCHANGED <<args, cfg, deferred, rawPRs, prs, mergedPRs, now,
                 refs, head, commits, histFile, remote, pushed, scratch,
                 attempted, intrinsic, pushResult, outputFile, fatalWhy>>

\* processSinglePR: git commit -m <title>
commit ==
  /\ pc = "commit"
  /\ gitLog' = Append(gitLog, "git commit " \o branch(prs[i]))
  /\ IF GitCommit(index, unmerged, intrinsic[i] = "badcommit")
     THEN /\ commits' = Append(commits,
                          NewCommit(refs[head], index, prs[i].Title, head,
                                    commits[refs[head]].hist))
          /\ refs' = [refs EXCEPT ![head] = Len(commits) + 1]
          /\ index' = {}
          /\ pc' = "createMergeRecord"
          /\ UNCHANGED <<outcome, i>>
     ELSE /\ Skip("commit")
          /\ UNCHANGED <<commits, refs, index>>
  /\ UNCHANGED <<args, cfg, deferred, rawPRs, prs, mergedPRs, now,
                 head, unmerged, histFile, remote, pushed, scratch,
                 attempted, intrinsic, pushResult, outputFile, fatalWhy>>

\* git rev-parse HEAD, or the placeholder when the command fails.
getLatestCommitSHA(revParseOk, tip) == IF revParseOk THEN tip ELSE UnknownSHA

createMergeRecord(pr, sha, t) == [PR |-> pr.Number, Commit |-> sha, Timestamp |-> t]

\* processPRs: mergedPRs = append(mergedPRs, createMergeRecord(pr))
appendRecord ==
  /\ pc = "createMergeRecord"
  /\ gitLog' = Append(gitLog, "git rev-parse HEAD")
  /\ \E revParseOk \in BOOLEAN :
       mergedPRs' = Append(mergedPRs,
                      createMergeRecord(prs[i],
                        getLatestCommitSHA(revParseOk, refs[head]), now))
  /\ now' = now + 1
  /\ outcome' = Append(outcome, "ok")
  /\ i' = i + 1
  /\ pc' = LoopNext(i + 1, Len(prs))
  /\ UNCHANGED <<args, cfg, deferred, rawPRs, prs, gitVars,
                 attempted, intrinsic, pushResult, outputFile, fatalWhy>>

-----------------------------------------------------------------------------
(* History, push, output *)

\* RefHistory{Merges: merges}, as written to the history file.
RefHistory(merges) == [exists |-> TRUE, merges |-> merges]

\* updateMergeHistory / updateRefHistory
updateMergeHistory ==
  /\ pc = "updateMergeHistory"
  /\ LET history == RefHistory(mergedPRs)
         staged  == IF history # commits[refs[head]].hist
                    THEN index \cup {refHistoryFile} ELSE index
         log1    == Append(gitLog, "write history")
         log2    == Append(log1, "git add history")
         log3    == Append(log2, "git commit history")
     IN
     \/ \* json.MarshalIndent fails
        /\ Fatal("error updating history: history serialization failed")
        /\ UNCHANGED <<histFile, index, commits, refs, gitLog>>
     \/ \* os.WriteFile fails
        /\ Fatal("error updating history: file write failed")
        /\ gitLog' = log1
        /\ UNCHANGED <<histFile, index, commits, refs>>
     \/ \* git add fails
        /\ Fatal("error updating history: git add failed")
        /\ gitLog' = log2
        /\ histFile' = history
        /\ UNCHANGED <<index, commits, refs>>
     \/ \* git commit fails
        /\ \E rejected \in BOOLEAN :
             /\ ~GitCommit(staged, unmerged, rejected)
             /\ Fatal(IF unmerged
                      THEN "error updating history: git commit failed: unmerged files"
                      ELSE IF staged = {}
                      THEN "error updating history: git commit failed: nothing to commit"
                      ELSE "error updating history: git commit failed")
        /\ gitLog' = log3
        /\ histFile' = history
        /\ index' = staged
        /\ UNCHANGED <<commits, refs>>
     \/ \* all succeed
        /\ GitCommit(staged, unmerged, FALSE)
        /\ gitLog' = log3
        /\ histFile' = history
        /\ commits' = Append(commits,
                        NewCommit(refs[head], staged, "chore: update ref-history",
                                  head, history))
        /\ refs' = [refs EXCEPT ![head] = Len(commits) + 1]
        /\ index' = {}
        /\ pc' = "pushChanges"
        /\ UNCHANGED fatalWhy
  /\ UNCHANGED <<args, cfg, deferred, rawPRs, prs, i, mergedPRs, now,
                 head, unmerged, remote, pushed, scratch,
                 attempted, intrinsic, outcome, pushResult, outputFile>>

\* Pushing the trunk branch in place of the target branch.
PushedTrunk(c) == c.TrunkBranch

\* The ref pushChanges pushes.
PushedRef(c) == c.TargetBranch

\* pushChanges: git push origin <target> --force; main drops the error it
\* returns and returns itself.
pushChanges ==
  /\ pc = "pushChanges"
  /\ gitLog' = Append(gitLog, "git push " \o PushedRef(cfg))
  /\ \/ /\ remote' = [remote EXCEPT ![PushedRef(cfg)] = refs[PushedRef(cfg)]]
        /\ pushed' = Append(pushed, PushedRef(cfg))
        /\ pushResult' = "ok"
     \/ /\ pushResult' = "failed"
        /\ UNCHANGED <<remote, pushed>>
  /\ pc' = "setOutput"
  /\ UNCHANGED <<args, cfg, deferred, rawPRs, prs, i, mergedPRs, now,
                 refs, head, commits, index, unmerged, histFile, scratch,
                 attempted, intrinsic, outcome, outputFile, fatalWhy>>

\* The deferred setOutput(cfg, "target_branch", cfg.TargetBranch), run when
\* main returns; its error is dropped.
setOutput ==
  /\ pc = "setOutput"
  /\ deferred
  /\ \/ \* os.OpenFile fails, or Fprintf fails
        UNCHANGED outputFile
     \/ outputFile' = Append(outputFile, <<"target_branch", cfg.TargetBranch>>)
  /\ pc' = "exit0"
  /\ UNCHANGED <<args, cfg, deferred, rawPRs, prs, i, mergedPRs, now, gitVars,
                 attempted, intrinsic, outcome, pushResult, fatalWhy, gitLog>>

Next ==
  \/ mustParseConfig
  \/ mustSetupGitConfig
  \/ mustFetchQualifiedPRs
  \/ prepareTargetBranch
  \/ fetch
  \/ squash
  \/ commit
  \/ appendRecord
  \/ updateMergeHistory
  \/ pushChanges
  \/ setOutput

Spec == Init /\ [][Next]_vars

-----------------------------------------------------------------------------
(* filterPRs on its own: fetchQualifiedPRs' last line, applied to a decoded  *)
(* response and a required label list, over more labellings than Spec has.  *)

\* The values of the labels flag.
FilterLabelFlags ==
  { <<>>, <<"Next-Feature">>, <<"bug", ",", "docs">>, <<"other">> }

\* The label objects of a pull request.
FilterLabels ==
  { <<>>, <<[name |-> "next-feature"]>>, <<[name |-> "Bug"]>>,
    <<[name |-> "docs"], [name |-> "Next-Feature"]>> }

RECURSIVE FilterResponsesOfLen(_)
FilterResponsesOfLen(n) ==
  IF n = 0 THEN { <<>> }
  ELSE { Append(r, [number |-> n, title |-> "title " \o ToString(n),
                    created_at |-> n, labels |-> l]) :
           r \in FilterResponsesOfLen(n - 1), l \in FilterLabels }

FilterResponses == UNION { FilterResponsesOfLen(n) : n \in 0..MaxPRs }

\* fetchQualifiedPRs with the response decoded and converted, about to filter.
FilterInit ==
  \E f \in FilterLabelFlags, response \in FilterResponses :
    LET a == [ github_token |-> "tok", owner |-> "acme", repo |-> "app",
               trunk_branch |-> "main", target_branch |-> "",
               labels |-> f, github_output |-> "/out" ]
    IN
    /\ RepoInit(a, FALSE, FALSE, FALSE)
    /\ pc = "filterPRs"
    /\ cfg = parseConfig(a)
    /\ deferred = TRUE
    /\ rawPRs = response
    /\ prs = <<>>
    /\ gitLog = <<"git config", "GET pulls">>

\* return filterPRs(prs, cfg.RequiredLabels), nil
applyFilterPRs ==
  /\ pc = "filterPRs"
  /\ prs' = filterPRs(ConvertPRs(rawPRs), cfg.RequiredLabels)
  /\ pc' = "prepareTargetBranch"
  /\ UNCHANGED <<args, cfg, deferred, rawPRs, i, mergedPRs, now, gitVars,
                 obsVars>>

FilterNext == applyFilterPRs

FilterSpec == FilterInit /\ [][FilterNext]_vars

-----------------------------------------------------------------------------
(* prepareTargetBranch on its own, called once and then once more with      *)
(* nothing in between.                                                      *)

\* main has parsed a valid configuration and fetched an empty candidate list;
\* the checkout is on trunk or on a target branch an earlier run left.
PrepareInit ==
  \E a \in { x \in ArgSets : parseConfigError(x) = "" },
     stale \in BOOLEAN, tracked \in BOOLEAN, onTarget \in BOOLEAN :
    /\ RepoInit(a, stale, tracked, onTarget)
    /\ pc = "prepareTargetBranch"
    /\ cfg = parseConfig(a)
    /\ deferred = TRUE
    /\ rawPRs = <<>>
    /\ prs = <<>>
    /\ gitLog = <<"git config", "GET pulls">>

\* prepareTargetBranch(cfg) called again right after it returned nil.
prepareTargetBranchAgain ==
  /\ Len(SelectSeq(gitLog, LAMBDA e : e = "git checkout -B")) = 1
  /\ prepareTargetBranchAt(LoopNext(1, Len(prs)))

PrepareNext == prepareTargetBranch \/ prepareTargetBranchAgain

PrepareSpec == PrepareInit /\ [][PrepareNext]_vars

-----------------------------------------------------------------------------
\* The history-step failures that the state left by the candidates does not
\* cause.
OtherHistoryErrors ==
  { "error updating history: history serialization failed",
    "error updating history: file write failed",
    "error updating history: git add failed",
    "error updating history: git commit failed",
    "error updating history: git commit failed: nothing to commit" }

HistoryErrors ==
  OtherHistoryErrors
    \cup { "error updating history: git commit failed: unmerged files" }

\* The fatal errors of configuration and setup.
SetupErrors ==
  { "invalid configuration", "error configuring Git",
    "checkout to trunk branch failed", "delete target branch failed",
    "create target branch failed" }
    \cup { "error fetching PRs: " \o e : e \in QueryErrors }

\* processPRs has returned.
LoopDone ==
  \/ pc \in {"updateMergeHistory", "pushChanges", "setOutput", "exit0"}
  \/ pc = "exit1" /\ fatalWhy \in HistoryErrors

\* The run has reached publishing.
Publishing == pc \in {"pushChanges", "setOutput", "exit0"}

\* The commits of a branch above the trunk tip, oldest first.
RECURSIVE Chain(_)
Chain(id) ==
  IF id = NoRef \/ id = RootCommit THEN <<>>
  ELSE Append(Chain(commits[id].parent), id)

\* The records of the candidates that succeeded so far, by number.
RECURSIVE OkNumbers(_)
OkNumbers(k) ==
  IF k = 0 THEN <<>>
  ELSE IF outcome[k] = "ok" THEN Append(OkNumbers(k - 1), prs[k].Number)
  ELSE OkNumbers(k - 1)

Candidate(n) == CHOOSE p \in Range(prs) : p.Number = n

\* The change sets of the candidates that failed.
FailedChanges ==
  { branch(prs[k]) : k \in { j \in 1..Len(outcome) : outcome[j] # "ok" } }

Sorted(list) ==
  \A j, k \in 1..Len(list) : j < k => list[j].CreatedAt <= list[k].CreatedAt

\* Where the response lists pull request n.
PositionOf(n) == CHOOSE m \in 1..Len(rawPRs) : rawPRs[m].number = n

TrunkName == args.trunk_branch
TargetName == DefaultTargetBranch(args)

-----------------------------------------------------------------------------
(* Properties *)

\* C1: processPRs attempts every candidate, a failure never stopping the later
\* ones, and the history holds exactly one record for each candidate whose
\* fetch, squash and commit all succeeded (its squash commit exists), in
\* order, and none for any other.
C1_EveryCandidateAttempted ==
  /\ Len(outcome) = i - 1
  /\ Len(intrinsic) \in {Len(outcome), Len(outcome) + 1}
  /\ LoopDone =>
       /\ Len(outcome) = Len(prs)
       /\ attempted = [ k \in 1..Len(prs) |-> prs[k].Number ]
  /\ \A k \in 1..Len(outcome) :
       (outcome[k] = "ok") <=>
         (\E id \in 1..Len(commits) : commits[id].msg = prs[k].Title)
  /\ [ k \in 1..Len(mergedPRs) |-> mergedPRs[k].PR ] = OkNumbers(Len(outcome))

\* C1 witness: [A(fails), B(succeeds)] run to the end: one record, for B.
C1_Witness ==
  /\ pc = "exit0"
  /\ Len(prs) = 2
  /\ outcome[1] # "ok"
  /\ outcome[2] = "ok"
  /\ Len(mergedPRs) = 1
  /\ mergedPRs[1].PR = prs[2].Number

\* C2: a run in which candidates failed never aborts because of them: when it
\* ends fatally after the loop, the cause is not the working copy a failed
\* candidate left behind.
C2_NoAbortFromFailedCandidate ==
  (pc = "exit1" /\ LoopDone /\ \E k \in 1..Len(outcome) : outcome[k] # "ok")
    => fatalWhy \in OtherHistoryErrors

\* C3: after a candidate's squash fails, the index is clean when the next
\* candidate's fetch starts, and a next candidate that would succeed on a
\* clean working copy succeeds.
C3_CleanBeforeNextCandidate ==
  /\ (pc = "fetch" /\ i > 1 /\ outcome[i - 1] = "squash")
       => (index = {} /\ ~unmerged)
  /\ \A k \in 2..Len(outcome) :
       (outcome[k - 1] = "squash" /\ WouldSucceed(intrinsic[k]))
         => outcome[k] = "ok"

\* C4: no commit of the pushed target branch holds changes of a failed
\* candidate, and every squash commit holds the changes of its own candidate
\* only.
C4_FailedChangesExcluded ==
  pushResult = "ok" =>
    \A k \in 1..Len(Chain(remote[TargetName])) :
      LET c == commits[Chain(remote[TargetName])[k]] IN
      /\ c.changes \cap FailedChanges = {}
      /\ \A p \in Range(prs) : c.msg = p.Title => c.changes = {branch(p)}

\* C5: a run never ends with a normal exit after a failed push.
C5_PushFailureIsFatal ==
  pushResult = "failed" => pc # "exit0"

\* C6: target_branch is written exactly once in every run that completes and
\* never in a run that aborts on a configuration or setup error.
C6_OutputWrittenOnce ==
  /\ pc = "exit0" => outputFile = << <<"target_branch", TargetName>> >>
  /\ (pc = "exit1" /\ fatalWhy \in SetupErrors) => outputFile = <<>>

\* C7: with target and trunk names different, the trunk tip stays what it was
\* at run start, locally and on origin, no commit is created while trunk is
\* checked out, and only the target branch is pushed.
C7_TrunkUntouched ==
  TargetName # TrunkName =>
    /\ refs[TrunkName] = RootCommit
    /\ remote[TrunkName] = RootCommit
    /\ \A id \in 1..Len(commits) : commits[id].on = TrunkName => id = RootCommit
    /\ \A k \in 1..Len(pushed) : pushed[k] = TargetName

\* C7 witness: a run that integrated a candidate and pushed.
C7_Witness ==
  /\ pc = "exit0"
  /\ TargetName # TrunkName
  /\ pushResult = "ok"
  /\ Len(mergedPRs) >= 1

\* C8: right after prepareTargetBranch the target tip is the trunk tip,
\* whatever an earlier run left; at publishing the target branch is the trunk
\* tip, then one squash commit per record in record order, then one history
\* commit.
C8_TargetBranchShape ==
  /\ (pc # "exit1" /\ gitLog # <<>> /\ gitLog[Len(gitLog)] = "git checkout -B")
       => (refs[TargetName] = RootCommit /\ head = TargetName)
  /\ Publishing =>
       LET chain == Chain(refs[TargetName]) IN
       /\ Len(chain) = Len(mergedPRs) + 1
       /\ \A k \in 1..Len(mergedPRs) :
            commits[chain[k]].msg = Candidate(mergedPRs[k].PR).Title
       /\ commits[chain[Len(chain)]].msg = "chore: update ref-history"
       /\ commits[chain[Len(chain)]].hist = RefHistory(mergedPRs)

\* C8 witness: publishing, with a record, in a repository where an earlier
\* run had left a target branch.
C8_Witness ==
  /\ pc = "pushChanges"
  /\ Len(mergedPRs) = 2
  /\ remote[TargetName] = StaleCommit

\* C9: every record's commit identifier is the commit this run created for
\* that candidate: never the placeholder, the trunk tip or another
\* candidate's commit; the identifiers are pairwise distinct.
C9_RecordHoldsOwnCommit ==
  /\ \A k \in 1..Len(mergedPRs) :
       /\ mergedPRs[k].Commit # UnknownSHA
       /\ mergedPRs[k].Commit # RootCommit
       /\ mergedPRs[k].Commit \in 1..Len(commits)
       /\ commits[mergedPRs[k].Commit].msg = Candidate(mergedPRs[k].PR).Title
  /\ \A j, k \in 1..Len(mergedPRs) :
       j # k => mergedPRs[j].Commit # mergedPRs[k].Commit

\* C10, as claimed: whatever the order of the response, the candidates are
\* processed in non-decreasing creation-time order.
C10_ProcessedInCreationOrder == Sorted(prs)

\* C10, amended: the candidates are processed in the order the response lists
\* them, so in non-decreasing creation-time order whenever the response is in
\* that order.
C10_ProcessedInResponseOrder ==
  /\ \A k \in 1..Len(prs) :
       \E m \in 1..Len(rawPRs) : prs[k] = ConvertPR(rawPRs[m])
  /\ \A j, k \in 1..Len(prs) :
       j < k => PositionOf(prs[j].Number) < PositionOf(prs[k].Number)
  /\ Sorted(ConvertPRs(rawPRs)) => Sorted(prs)
  /\ Len(attempted) \in {i - 1, i}
  /\ \A k \in 1..Len(attempted) : attempted[k] = prs[k].Number

\* C10 witness: a response of two qualifying pull requests in creation order,
\* both attempted.
C10_Witness ==
  /\ pc = "exit0"
  /\ Len(prs) = 2
  /\ prs[1].CreatedAt < prs[2].CreatedAt
  /\ Len(attempted) = 2

-----------------------------------------------------------------------------
(* C11 *)

\* The labels that differ in case only.
CaseClasses ==
  { {"next-feature", "Next-Feature"}, {"bug", "Bug"}, {"docs"}, {"other"} }

SameUpToCase(a, b) == \E c \in CaseClasses : a \in c /\ b \in c

Qualifies(pr, required) ==
  \/ required = <<>>
  \/ \E l \in Range(pr.Labels), r \in Range(required) : SameUpToCase(l, r)

Filtered == pc = "prepareTargetBranch" /\ gitLog = <<"git config", "GET pulls">>

\* C11: filterPRs returns exactly the candidates that qualify, in input
\* order, a candidate qualifying iff no label is required or one of its
\* labels equals a required label up to case; with no label required the
\* output is the input, and required "Next-Feature" matches "next-feature".
C11_FilterKeepsQualifying ==
  Filtered =>
    LET input    == ConvertPRs(rawPRs)
        required == cfg.RequiredLabels
        kept     == { k \in 1..Len(input) : Qualifies(input[k], required) }
    IN
    /\ Len(prs) = Cardinality(kept)
    /\ \A k \in 1..Len(input) :
         (k \in kept) <=> (\E j \in 1..Len(prs) : prs[j] = input[k])
    /\ \A j, k \in 1..Len(prs) :
         j < k => \E a, b \in kept : a < b /\ input[a] = prs[j] /\ input[b] = prs[k]
    /\ required = <<>> => prs = input
    /\ \A k \in 1..Len(input) :
         ("Next-Feature" \in Range(required)
            /\ "next-feature" \in Range(input[k].Labels))
         => \E j \in 1..Len(prs) : prs[j] = input[k]

\* A candidate labelled "next-feature" kept for "Next-Feature" and another
\* candidate dropped.
C11_Witness ==
  /\ Filtered
  /\ "Next-Feature" \in Range(cfg.RequiredLabels)
  /\ Len(rawPRs) = 2
  /\ Len(prs) = 1
  /\ "next-feature" \in Range(prs[1].Labels)

-----------------------------------------------------------------------------
(* C12 *)

\* The failures of the history step that come from outside the run.
ExternalHistoryErrors ==
  { "error updating history: history serialization failed",
    "error updating history: file write failed",
    "error updating history: git add failed",
    "error updating history: git commit failed" }

\* processPRs returned with no record: no candidate qualified, or each failed.
EmptyRun == LoopDone /\ mergedPRs = <<>>

\* C12: an empty run is a successful run: whatever trunk holds, the history
\* step of a run without records does not end the run unless a step outside
\* the run's control fails, and a run that got past it has committed the
\* history file with zero records on the target branch.
C12_EmptyRunSucceeds ==
  /\ (EmptyRun /\ pc = "exit1") => fatalWhy \in ExternalHistoryErrors
  /\ (EmptyRun /\ Publishing) =>
       /\ commits[refs[cfg.TargetBranch]].msg = "chore: update ref-history"
       /\ commits[refs[cfg.TargetBranch]].hist = RefHistory(<<>>)

-----------------------------------------------------------------------------
(* C13 *)

\* The commands of each stage of main, as gitLog names them.
QueryLog == { "GET pulls" }
ResetLog == { "git checkout trunk", "git branch -D", "git checkout -B" }
\* The commands of pull request number n.
FetchOf == [ n \in 1..MaxPRs |-> "git fetch pr-" \o ToString(n) ]
SquashOf == [ n \in 1..MaxPRs |-> "git merge --squash pr-" \o ToString(n) ]
CommitOf == [ n \in 1..MaxPRs |-> "git commit pr-" \o ToString(n) ]
CandidateLog ==
  { FetchOf[n] : n \in 1..MaxPRs } \cup { SquashOf[n] : n \in 1..MaxPRs }
    \cup { CommitOf[n] : n \in 1..MaxPRs } \cup { "git rev-parse HEAD" }
HistoryLog == { "write history", "git add history", "git commit history" }
PushLog == { "git push " \o b : b \in BranchNames }

At(entries) == { k \in 1..Len(gitLog) : gitLog[k] \in entries }

\* The stages of main in the order main runs them, and each command's stage.
Stages == <<"setup", "query", "reset", "candidates", "history", "push">>

StageOf ==
  [ e \in {"git config"} \cup QueryLog \cup ResetLog \cup CandidateLog
             \cup HistoryLog \cup PushLog |->
      CHOOSE s \in 1..Len(Stages) :
        e \in << {"git config"}, QueryLog, ResetLog, CandidateLog, HistoryLog,
                 PushLog >>[s] ]

QueryFatal == { "error fetching PRs: " \o e : e \in QueryErrors }

\* The commits the repository held when the run started.
InitialCommits ==
  { id \in 1..Len(commits) :
      commits[id].msg = "trunk" \/ "stale" \in commits[id].changes }

\* C13: control is sequential and a fatal error stops everything after it:
\* the reset runs only after the query succeeded, candidates only after the
\* reset succeeded, the history step only after the last candidate, the push
\* only after the history commit succeeded; a run that ended fatally has not
\* pushed and origin holds what it held at the start.
C13_SequentialAndFatalStops ==
  LET stage == [ k \in 1..Len(gitLog) |-> StageOf[gitLog[k]] ]
      ran   == { Stages[stage[k]] : k \in 1..Len(gitLog) }
  IN
  /\ \A k \in 2..Len(gitLog) : stage[k - 1] <= stage[k]
  /\ "reset" \in ran =>
       /\ "query" \in ran
       /\ fatalWhy \notin QueryFatal
  /\ "candidates" \in ran =>
       /\ "git checkout -B" \in Range(gitLog)
       /\ fatalWhy \notin SetupErrors
       /\ head = cfg.TargetBranch
  /\ "history" \in ran =>
       /\ "reset" \in ran
       /\ Len(outcome) = Len(prs)
  /\ "push" \in ran =>
       /\ "git commit history" \in Range(gitLog)
       /\ fatalWhy = ""
       /\ refs[cfg.TargetBranch] \notin InitialCommits
       /\ commits[refs[cfg.TargetBranch]].msg = "chore: update ref-history"
  /\ pc = "exit1" =>
       /\ "push" \notin ran
       /\ pushed = <<>>
       /\ \A b \in BranchNames : remote[b] \in InitialCommits \cup {NoRef}

\* A candidate was integrated, the history step failed fatally, and origin's
\* target branch is as it was.
C13_Witness ==
  /\ pc = "exit1"
  /\ fatalWhy \in HistoryErrors
  /\ Len(mergedPRs) = 1
  /\ refs[TargetName] \notin InitialCommits \cup {NoRef}
  /\ remote[TargetName] \in InitialCommits \cup {NoRef}

-----------------------------------------------------------------------------
(* C14 *)

\* A required flag (token, owner, repository, output path) is empty.
MissingRequired ==
  \/ args.github_token = ""
  \/ args.owner = ""
  \/ args.repo = ""
  \/ args.github_output = ""

\* C14: with a required configuration field missing the run ends with the
\* fatal configuration error before any side effect: no git command, no
\* request, no file written, no commit, no push and no output value.
C14_MissingConfigNoSideEffect ==
  MissingRequired =>
    /\ pc \in {"mustParseConfig", "exit1"}
    /\ pc = "exit1" => fatalWhy = "invalid configuration"
    /\ gitLog = <<>>
    /\ ~deferred
    /\ outputFile = <<>>
    /\ pushed = <<>>
    /\ scratch = {}
    /\ index = {}
    /\ head = TrunkName
    /\ histFile = commits[refs[TrunkName]].hist
    /\ \A id \in 1..Len(commits) : id \in InitialCommits
    /\ \A b \in BranchNames : remote[b] = refs[b]

\* The run has ended on a configuration that lacks only the output path.
C14_Witness ==
  /\ pc = "exit1"
  /\ args.github_token # "" /\ args.owner # "" /\ args.repo # ""
  /\ args.github_output = ""
  /\ fatalWhy = "invalid configuration"

-----------------------------------------------------------------------------
(* C15 *)

\* The name the documentation gives the target branch.
ExpectedTarget ==
  IF args.target_branch # "" THEN args.target_branch
  ELSE "pre-" \o args.trunk_branch

\* git checkout -B has succeeded.
ResetDone ==
  /\ "git checkout -B" \in Range(gitLog)
  /\ fatalWhy # "create target branch failed"

\* C15: the branch reset from trunk, the branch pushed and the value written
\* as target_branch are one name: the configured target branch, or "pre-"
\* followed by the trunk branch name when none is configured.
C15_OneTargetName ==
  /\ ResetDone =>
       /\ head = ExpectedTarget
       /\ refs[ExpectedTarget] # NoRef
       /\ \A b \in BranchNames \ {ExpectedTarget, args.trunk_branch} :
            refs[b] = NoRef
  /\ \A k \in At(PushLog) : gitLog[k] = "git push " \o ExpectedTarget
  /\ \A k \in 1..Len(pushed) : pushed[k] = ExpectedTarget
  /\ \A b \in BranchNames \ {ExpectedTarget} : remote[b] \in {NoRef, RootCommit}
  /\ \A k \in 1..Len(outputFile) :
       outputFile[k] = <<"target_branch", ExpectedTarget>>

\* A run without a configured target on trunk dev has reset, pushed and
\* reported pre-dev.
C15_Witness ==
  /\ pc = "exit0"
  /\ args.target_branch = ""
  /\ args.trunk_branch = "dev"
  /\ head = "pre-dev"
  /\ pushed = <<"pre-dev">>
  /\ outputFile = << <<"target_branch", "pre-dev">> >>

-----------------------------------------------------------------------------
(* C16 *)

\* The history commits this run made.
HistoryCommits ==
  { id \in 1..Len(commits) :
      id \notin InitialCommits /\ commits[id].msg = "chore: update ref-history" }

\* C16: the history commit changes no path other than the history file,
\* whatever the candidates before it did, and the file it commits holds
\* exactly this run's records.
C16_HistoryCommitOnlyHistoryFile ==
  \A id \in HistoryCommits :
    /\ commits[id].changes \subseteq {refHistoryFile}
    /\ commits[id].hist = RefHistory(mergedPRs)

-----------------------------------------------------------------------------
(* C17 *)

\* The scratch branch of pull request number n.
ScratchOf == [ n \in 1..MaxPRs |-> "pr-" \o ToString(n) ]

\* The command processSinglePR runs just before a squash and before a commit.
StepBefore ==
  [ e \in { SquashOf[n] : n \in 1..MaxPRs } \cup { CommitOf[n] : n \in 1..MaxPRs }
      |-> LET n == CHOOSE m \in 1..MaxPRs : e \in {SquashOf[m], CommitOf[m]}
          IN IF e = SquashOf[n] THEN FetchOf[n] ELSE SquashOf[n] ]

Occurrences(entry) == Cardinality(At({entry}))

\* C17: nothing is retried: each candidate's fetch, squash and commit is
\* attempted at most once and in that order, a step only if the candidate's
\* previous step succeeded, and each command of the branch reset, the history
\* commit and the push is attempted at most once.
C17_NoRetry ==
  LET once == { k \in 1..Len(gitLog) : gitLog[k] # "git rev-parse HEAD" }
      ran  == Range(gitLog)
  IN
  /\ Cardinality({ gitLog[k] : k \in once }) = Cardinality(once)
  /\ Cardinality(At(PushLog)) <= 1
  /\ \A k \in 1..Len(gitLog) :
       gitLog[k] \in DOMAIN StepBefore =>
         k > 1 /\ gitLog[k - 1] = StepBefore[gitLog[k]]
  /\ \A n \in 1..MaxPRs : SquashOf[n] \in ran => ScratchOf[n] \in scratch
  /\ \A k \in 1..Len(outcome) :
       LET n == prs[k].Number IN
       /\ FetchOf[n] \in ran
       /\ outcome[k] = "fetch" => SquashOf[n] \notin ran
       /\ outcome[k] = "squash" => CommitOf[n] \notin ran
       /\ CommitOf[n] \in ran => outcome[k] \in {"commit", "ok"}

\* A finished run of two candidates, the first failing at its fetch and the
\* second integrated, that pushed.
C17_Witness ==
  /\ pc = "exit0"
  /\ outcome = <<"fetch", "ok">>
  /\ pushed # <<>>
  /\ Occurrences(FetchOf[prs[1].Number]) = 1
  /\ Occurrences(CommitOf[prs[2].Number]) = 1

-----------------------------------------------------------------------------
(* C18 *)

\* prepareTargetBranch has returned nil.
Prepared == pc = LoopNext(1, Len(prs))

\* C18: prepareTargetBranch is idempotent: after it returned, the target
\* branch is at the trunk tip and checked out, whether or not a target branch
\* existed before, and a second call that returns leaves the branches, the
\* checked-out branch and the working copy as the first call left them.
C18_PrepareIdempotent ==
  /\ [](Prepared =>
         /\ head = cfg.TargetBranch
         /\ refs[cfg.TargetBranch] = refs[cfg.TrunkBranch]
         /\ refs[cfg.TrunkBranch] = RootCommit)
  /\ [][(Prepared /\ Prepared') =>
         /\ refs' = refs
         /\ head' = head
         /\ histFile' = histFile
         /\ index' = index
         /\ commits' = commits]_vars

\* Two calls have returned nil in a repository where a target branch existed
\* beforehand.
C18_Witness ==
  /\ Prepared
  /\ Len(SelectSeq(gitLog, LAMBDA e : e = "git checkout -B")) = 2
  /\ Len(SelectSeq(gitLog, LAMBDA e : e = "git branch -D")) = 2
  /\ refs[cfg.TargetBranch] = RootCommit
  /\ remote[cfg.TargetBranch] = StaleCommit

-----------------------------------------------------------------------------
(* C19 *)

\* The target branch is configured to be the trunk branch.
TargetIsTrunk == args.target_branch = args.trunk_branch

\* C19 as stated: with the target branch configured equal to trunk the run
\* proceeds past the branch reset (and then commits on trunk and pushes it).
C19_SelfOverwrite ==
  (TargetIsTrunk /\ pc = "prepareTargetBranch")
    => ENABLED (prepareTargetBranch /\ pc' # "exit1")

\* C19: with the target branch configured equal to trunk the run does not get
\* past the branch reset: git branch -D refuses the checked-out trunk, the
\* run ends fatally, and nothing is committed on trunk or pushed.
C19_TrunkAsTargetStopsAtReset ==
  TargetIsTrunk =>
    /\ pc \in {"mustParseConfig", "mustSetupGitConfig", "mustFetchQualifiedPRs",
               "prepareTargetBranch", "exit1"}
    /\ "git checkout -B" \notin Range(gitLog)
    /\ (pc = "exit1" /\ "git branch -D" \in Range(gitLog))
         => fatalWhy = "delete target branch failed"
    /\ refs[TrunkName] = RootCommit
    /\ remote[TrunkName] = RootCommit
    /\ \A id \in 1..Len(commits) : id \in InitialCommits
    /\ pushed = <<>>
    /\ outputFile = <<>>

\* A run with target = trunk has ended at git branch -D.
C19_Witness ==
  /\ TargetIsTrunk
  /\ pc = "exit1"
  /\ gitLog = <<"git config", "GET pulls", "git checkout trunk", "git branch -D">>
  /\ fatalWhy = "delete target branch failed"
  /\ head = TrunkName

====
